---- MODULE Spec2Model ----
(***************************************************************************)
(* Model of the short-position feeder of data_harvest:                     *)
(*   src/src/feeders/ibex_short_provider.rs  (IbexShortFeeder)             *)
(*   src/src/web_scrappers/cnmv_scrapper.rs  (CnmvProvider)                *)
(*   src/src/domain/short_position.rs        (ShortPosition)               *)
(* The store is the pair of tables alive_positions / ibex35_short_historic *)
(* and add_today_data is the only entry point that writes to it.           *)
(***************************************************************************)
EXTENDS Integers, Sequences, FiniteSets, TLC

(* ------------------------------ bounds --------------------------------- *)
\* number of identities Uuid::new_v4 can hand out before the model stops
MaxIds == 3
\* weights a page can show: 1..MaxWeight
MaxWeight == 2
\* dates a page can show: 1..MaxDate
MaxDate == 1
\* number of owner-bearing rows of one page
MaxPage == 2
\* number of calls made to a library function on its own
MaxCalls == 3

(* ----------------------------- variables ------------------------------ *)
VARIABLES
    alive,          \* table alive_positions: sequence of ids, in row order
    historic,       \* table ibex35_short_historic: sequence of rows
    nextId,         \* next identity Uuid::new_v4 returns
    pc,             \* position of add_today_data
    ci,             \* index in Filtered of the company being processed
    new_positions,  \* positions scraped for the company
    stored_positions, \* rows read by active_positions for the company
    j,              \* index of the running for loop
    insert_ticker,  \* the flag of the both-non-empty branch
    updated_tickers, \* the list add_today_data returns
    result,         \* outcome of the run: None while running
    tx,             \* open transaction: Some(its view of both tables), or None
    call,           \* arguments and return point of insert_short_position
    ops,            \* writes committed for the company in this run
    base,           \* both tables as they were when the company started
    visited,        \* indices of Filtered whose fetch was issued in this run
    written,        \* tickers with a write committed in this run
    returned_at,    \* the position the run returned from: None while running
    response,       \* the answer to the last request, until the rows are read
    total,          \* AliveShortPositions::total of the snapshot just returned
    directory,      \* table ibex35_listing: sequence of rows
    calls,          \* calls made to the library's functions on their own
    partial         \* the reconciliation a failed write cut short, if watched

(* ----------------------------- constants ------------------------------- *)
\* '00000000-0000-0000-0000-000000000000', the identity written by a retire
Void == 0

\* Option<T>: None and Some(x); a NULL column reads as None
None == <<>>
Some(x) == <<x>>
Unwrap(o) == o[1]

Owners == {"FundA", "FundB"}
Weights == 1..MaxWeight
Dates == 1..MaxDate

Ok(v) == [ok |-> TRUE, val |-> v]
Err(e) == [ok |-> FALSE, val |-> e]

\* an IbexCompanyBd
CompanyBd(full_name, name, ticker, isin, extra_id) ==
    [full_name |-> full_name, name |-> name, ticker |-> ticker, isin |-> isin,
     extra_id |-> extra_id]

\* rows of ibex35_listing; extra_id is the NIF the CNMV endpoint needs
ListingTable ==
    << CompanyBd(Some("Solaria Energia"), Some("Solaria"), Some("SLR"),
                 Some("ES0165386014"), Some("A84")),
       CompanyBd(None, Some("Ferrovial"), Some("FER"), Some("NL0015001FS8"), None),
       CompanyBd(Some("Grifols S.A."), Some("Grifols"), Some("GRF"),
                 Some("ES0171996087"), Some("A58")) >>

\* TryFrom<&IbexCompanyBd> for IbexCompany; of an IbexCompany the feeder
\* reads ticker() and extra_id()
TryFromCompany(value) ==
    IF value.name = None THEN Err("MissingStockInfo")
    ELSE IF value.ticker = None THEN Err("MissingStockInfo")
    ELSE IF value.isin = None THEN Err("MissingStockInfo")
    ELSE Ok([ticker |-> Unwrap(value.ticker), extra_id |-> value.extra_id])

\* stock_listing on the rows the query returned
StockListingOf(rows) ==
    IF \E i \in DOMAIN rows : ~TryFromCompany(rows[i]).ok THEN Err("DbError")
    ELSE Ok([i \in DOMAIN rows |-> TryFromCompany(rows[i]).val])

\* the companies add_today_data works on
Listing == StockListingOf(ListingTable).val

\* the table, and the table with one row that lacks a column
ListingTables ==
    {ListingTable}
    \cup {[ListingTable EXCEPT ![i][f] = None] :
            i \in DOMAIN ListingTable, f \in {"name", "ticker", "isin"}}

\* variant: the loop runs over every company of the listing
Unfiltered == Listing

\* companies.iter().filter(|x| x.extra_id().is_some())
Filtered == SelectSeq(Listing, LAMBDA c : c.extra_id # None)

Tickers == {Listing[i].ticker : i \in DOMAIN Listing}

\* a ShortPosition
Position(o, w, d, t) == [owner |-> o, weight |-> w, open_date |-> d, ticker |-> t]

\* the funds that disclose positions against a company
OwnersOf(t) == IF t = "SLR" THEN Owners ELSE {"FundA"}

PositionsOf(t) == {Position(o, w, d, t) : o \in OwnersOf(t), w \in Weights, d \in Dates}

RECURSIVE SeqsUpTo(_, _)
SeqsUpTo(S, n) ==
    IF n = 0 THEN {<<>>}
    ELSE LET shorter == SeqsUpTo(S, n - 1)
         IN shorter \cup {Append(s, x) : s \in {q \in shorter : Len(q) = n - 1}, x \in S}

\* the position lists short_positions can return for a company: every row
\* carries the requesting company's ticker, rows are in page order
Pages(t) == SeqsUpTo(PositionsOf(t), MaxPage)

\* the errors short_positions can return (CnmvError)
ScrapeErrors == {"ExternalError", "UnknownCompany", "InternalError"}

\* an Err whose variant carries a message
ErrMsg(e, m) == [ok |-> FALSE, val |-> e, msg |-> m]

\* a panic (a failed unwrap) unwinds out of add_today_data
Panic == Err("panic")

(* ------------------------- text of a response -------------------------- *)
\* A text is a sequence of tokens: single characters where the code looks at
\* characters (identifiers, numbers, dates, blanks), and one token for each
\* phrase the code only searches as a whole.
FailText == << "No ha sido posible completar su consulta" >>
NoDataText == << "No se han encontrado datos disponibles" >>
\* "Serie histórica"
SerieText == << "Serie historica" >>

DigitChars == << "0", "1", "2", "3", "4", "5", "6", "7", "8", "9" >>
IsDigit(c) == \E d \in DOMAIN DigitChars : DigitChars[d] = c
DigitVal(c) == (CHOOSE d \in DOMAIN DigitChars : DigitChars[d] = c) - 1

\* str::contains / str::find(..).is_some()
Contains(s, pat) ==
    \E i \in 1..(Len(s) - Len(pat) + 1) : SubSeq(s, i, i + Len(pat) - 1) = pat

\* the number of digits REG_ISIN asks for after the country letters
IsinDigits == 10

\* the pattern at position i: the letters E, S and n digits
IsinAt(s, i, n) ==
    /\ i + 1 + n <= Len(s)
    /\ s[i] = "E"
    /\ s[i + 1] = "S"
    /\ \A k \in 1..n : IsDigit(s[i + 1 + k])

\* variant: a text is matched only the first time it is seen
RegIsinMatchOnce(s) ==
    /\ \E i \in DOMAIN s : IsinAt(s, i, IsinDigits)
    /\ ~\E c \in DOMAIN calls : calls[c].arg = s

\* REG_ISIN.is_match(&s), REG_ISIN = r"ES(\d){10}"
RegIsinMatch(s) == \E i \in DOMAIN s : IsinAt(s, i, IsinDigits)

ExternalServerMsg == "The request could be processed by the external server"

\* variant: the failure marker is looked for after the no-data marker
ShortResponseParseNoDataFirst(s) ==
    IF Contains(s, NoDataText)
    THEN IF Contains(s, SerieText) THEN Ok(s)
         ELSE IF RegIsinMatch(s) THEN Ok(s)
         ELSE Err("UnknownCompany")
    ELSE IF Contains(s, FailText) THEN ErrMsg("ExternalError", ExternalServerMsg)
    ELSE Ok(s)

\* ShortResponse::parse
ShortResponseParse(s) ==
    IF Contains(s, FailText) THEN ErrMsg("ExternalError", ExternalServerMsg)
    ELSE IF Contains(s, NoDataText)
    THEN IF Contains(s, SerieText) THEN Ok(s)
         ELSE IF RegIsinMatch(s) THEN Ok(s)
         ELSE Err("UnknownCompany")
    ELSE Ok(s)

(* ------------------------------ numbers -------------------------------- *)
\* .replace(',', ".")
ReplaceComma(s) == [i \in DOMAIN s |-> IF s[i] = "," THEN "." ELSE s[i]]

RECURSIVE DigitsValue(_)
DigitsValue(s) ==
    IF Len(s) = 0 THEN 0
    ELSE 10 * DigitsValue(SubSeq(s, 1, Len(s) - 1)) + DigitVal(s[Len(s)])

AllDigits(s) == Len(s) > 0 /\ \A i \in DOMAIN s : IsDigit(s[i])

\* str::parse::<f32>() on the texts of the model, which have at most one
\* decimal: the value in tenths, or None when the text is not a number.
\* No blank is skipped and no sign of a percentage is accepted.
ParseF32(s) ==
    IF AllDigits(s) THEN Some(10 * DigitsValue(s))
    ELSE IF /\ Len(s) >= 3
            /\ s[Len(s) - 1] = "."
            /\ AllDigits(SubSeq(s, 1, Len(s) - 2))
            /\ IsDigit(s[Len(s)])
    THEN Some(10 * DigitsValue(SubSeq(s, 1, Len(s) - 2)) + DigitVal(s[Len(s)]))
    ELSE None

(* ------------------------------- dates --------------------------------- *)
\* the year of the dates the pages of the model show
EpochYearText == << "2", "0", "2", "5" >>
EpochYear == DigitsValue(EpochYearText)

IsLeap(y) == (y % 4 = 0 /\ y % 100 # 0) \/ y % 400 = 0

DaysIn(m, y) ==
    IF m = 2 THEN (IF IsLeap(y) THEN 29 ELSE 28)
    ELSE IF m \in {4, 6, 9, 11} THEN 30 ELSE 31

\* NaiveDate::parse_from_str(&date, "%d/%m/%Y") on texts written dd/mm/yyyy:
\* the calendar date, or None
ParseDate(s) ==
    IF /\ Len(s) = 10
       /\ s[3] = "/"
       /\ s[6] = "/"
       /\ AllDigits(SubSeq(s, 1, 2))
       /\ AllDigits(SubSeq(s, 4, 5))
       /\ AllDigits(SubSeq(s, 7, 10))
    THEN LET d == DigitsValue(SubSeq(s, 1, 2))
             m == DigitsValue(SubSeq(s, 4, 5))
             y == DigitsValue(SubSeq(s, 7, 10))
         IN IF m \in 1..12 /\ d >= 1 /\ d <= DaysIn(m, y)
            THEN Some([day |-> d, month |-> m, year |-> y])
            ELSE None
    ELSE None

\* Madrid.from_local_datetime(date at 15:30): the zone changes its offset at
\* 02:00 or 03:00 local time, so 15:30 is one instant on every date
MadridLocalResult(date) == "Single"

\* value.to_utc(): 15:30 in Madrid is 13:30 or 14:30 UTC of the same day.
\* Instants are numbered by their day, day 1 being 1 January of EpochYear.
ToUtc(date) == (date.year - EpochYear) * 372 + (date.month - 1) * 31 + date.day

(* ---------------------------- the document ----------------------------- *)
\* A body is the text outside the table and the rows of the table; a row is
\* the sequence of its td cells; a cell has its class and data-th attributes
\* and its first text node, each of which may be missing.
Cell(class, data_th, text) == [class |-> class, data_th |-> data_th, text |-> text]
Body(text, rows) == [text |-> text, rows |-> rows]

OwnerClass == "Izquierda"
WeightTh == "% sobre el capital"
\* "Fecha de la posición"
DateTh == "Fecha de la posicion"

\* the markup between two texts of the table
TdTag == << "<td>" >>
TrTag == << "<tr>" >>

RECURSIVE CellsText(_, _)
CellsText(row, k) ==
    IF k > Len(row) THEN <<>>
    ELSE TdTag \o (IF row[k].text = None THEN <<>> ELSE Unwrap(row[k].text))
         \o CellsText(row, k + 1)

RECURSIVE RowsText(_, _)
RowsText(rows, k) ==
    IF k > Len(rows) THEN <<>>
    ELSE TrTag \o CellsText(rows[k], 1) \o RowsText(rows, k + 1)

\* resp.text(): the string ShortResponse::parse searches
RawText(body) == body.text \o RowsText(body.rows, 1)

RECURSIVE TrimStart(_)
TrimStart(s) == IF Len(s) > 0 /\ s[1] = " " THEN TrimStart(Tail(s)) ELSE s

RECURSIVE TrimEnd(_)
TrimEnd(s) ==
    IF Len(s) > 0 /\ s[Len(s)] = " " THEN TrimEnd(SubSeq(s, 1, Len(s) - 1)) ELSE s

\* str::trim
Trim(s) == TrimEnd(TrimStart(s))

\* the String of a trimmed owner text: the names of the model are one word
OwnerString(s) == IF Len(s) = 0 THEN "" ELSE s[1]

\* let mut owner = "dummy"; let mut weight = 0.0; let mut date = "nodate"
RowInit == [owner |-> "dummy", weight |-> 0, date |-> << "nodate" >>, panic |-> FALSE]

\* the body of `for td in tr.select(&td_selector)`
CellStep(acc, td) ==
    IF acc.panic THEN acc
    ELSE IF td.class # None
    THEN IF Unwrap(td.class) = OwnerClass
         THEN IF td.text = None THEN [acc EXCEPT !.panic = TRUE]
              ELSE [acc EXCEPT !.owner = OwnerString(Trim(Unwrap(td.text)))]
         ELSE acc
    ELSE IF td.data_th # None
    THEN IF Unwrap(td.data_th) = WeightTh
         THEN IF td.text = None THEN [acc EXCEPT !.panic = TRUE]
              ELSE LET w == ParseF32(ReplaceComma(Unwrap(td.text)))
                   IN IF w = None THEN [acc EXCEPT !.panic = TRUE]
                      ELSE [acc EXCEPT !.weight = Unwrap(w)]
         ELSE IF Unwrap(td.data_th) = DateTh
         THEN IF td.text = None THEN [acc EXCEPT !.panic = TRUE]
              ELSE [acc EXCEPT !.date = Unwrap(td.text)]
         ELSE acc
    ELSE acc

RECURSIVE ScanCells(_, _, _)
ScanCells(acc, row, k) ==
    IF k > Len(row) THEN acc ELSE ScanCells(CellStep(acc, row[k]), row, k + 1)

DateParseMsg == "Failed to parse the short position open date."
DateBuildMsg == "Failed to build a valid date."

\* the body of `for tr in html.select(&tr_selector)` and the result of
\* short_positions once the rows are exhausted
RECURSIVE SumWeightsLast(_, _, _)
SumWeightsLast(positions, k, sum) ==
    IF k > Len(positions) THEN sum
    ELSE SumWeightsLast(positions, k + 1, positions[k].weight)

\* positions.iter().for_each(|position| total += position.weight)
RECURSIVE SumWeights(_, _, _)
SumWeights(positions, k, sum) ==
    IF k > Len(positions) THEN sum
    ELSE SumWeights(positions, k + 1, sum + positions[k].weight)

\* the snapshot short_positions returns; its date is the time of the call,
\* which nothing reads
AliveShortPositions(sum, positions) == [total |-> sum, positions |-> positions]

RECURSIVE Extract(_, _, _, _)
Extract(rows, k, positions, ticker) ==
    IF k > Len(rows)
    THEN Ok(AliveShortPositions(SumWeights(positions, 1, 0), positions))
    ELSE LET acc == ScanCells(RowInit, rows[k], 1)
         IN IF acc.panic THEN Panic
            ELSE IF acc.owner # "dummy"
            THEN LET d == ParseDate(acc.date)
                 IN IF d = None THEN ErrMsg("InternalError", DateParseMsg)
                    ELSE IF MadridLocalResult(Unwrap(d)) # "Single"
                    THEN ErrMsg("InternalError", DateBuildMsg)
                    ELSE Extract(rows, k + 1,
                                 Append(positions,
                                        Position(acc.owner, acc.weight,
                                                 ToUtc(Unwrap(d)), ticker)),
                                 ticker)
            ELSE Extract(rows, k + 1, positions, ticker)

(* ----------------------------- the request ----------------------------- *)
\* what reqwest::get gives: no response at all, or a status and a body,
\* and a body whose transfer can still fail
NoResponse == [sent |-> FALSE, status |-> 0, read |-> FALSE, body |-> Body(<<>>, <<>>)]
Response(status, body) == [sent |-> TRUE, status |-> status, read |-> TRUE, body |-> body]
\* the status line arrived, the body did not
Truncated(status) == [sent |-> TRUE, status |-> status, read |-> FALSE, body |-> Body(<<>>, <<>>)]

HttpOk == 200

\* resp.status().as_u16() != 200
StatusRefused(status) == status # HttpOk

TransportMsg == "error sending request"
BodyMsg == "error decoding response body"

\* CnmvProvider::collect_data
CollectData(stock, resp) ==
    IF stock.extra_id = None THEN Err("MissingIsin")
    ELSE IF ~resp.sent THEN ErrMsg("ExternalError", TransportMsg)
    ELSE IF StatusRefused(resp.status)
    THEN ErrMsg("ExternalError", ToString(resp.status))
    ELSE IF ~resp.read THEN ErrMsg("InternalError", BodyMsg)
    ELSE ShortResponseParse(RawText(resp.body))

\* CnmvProvider::short_positions: the snapshot, or the error
ShortPositionsOf(stock, resp) ==
    LET raw_data == CollectData(stock, resp)
    IN IF ~raw_data.ok THEN raw_data
       ELSE Extract(resp.body.rows, 1, <<>>, stock.ticker)

(* ------------------------- pages of the model -------------------------- *)
\* a weight in tenths as the page writes it, with a decimal comma
WeightText(w) == << DigitChars[(w \div 10) + 1], ",", DigitChars[(w % 10) + 1] >>

\* day d of January of EpochYear as the page writes it
DateText(d) ==
    << DigitChars[(d \div 10) + 1], DigitChars[(d % 10) + 1], "/", "0", "1", "/" >>
    \o EpochYearText

OwnerCell(text) == Cell(Some(OwnerClass), None, text)
WeightCell(text) == Cell(None, Some(WeightTh), text)
DateCell(text) == Cell(None, Some(DateTh), text)

\* the row of a position
GoodRow(p) ==
    << OwnerCell(Some(<< p.owner >>)),
       WeightCell(Some(WeightText(p.weight))),
       DateCell(Some(DateText(p.open_date))) >>

\* an identifier in the text of a page, one without the letters ES, one short
IsinText == << "E", "S", "0", "1", "6", "5", "3", "8", "6", "0", "1", "4" >>
ForeignIsinText == << "L", "U", "1", "5", "9", "8", "7", "5", "7", "6", "8", "7" >>
ShortIsinText == << "E", "S", "0", "1", "6", "5", "3", "8", "6", "0", "1" >>

\* the page of a list of positions
PageBody(p) == Body(IsinText, [i \in DOMAIN p |-> GoodRow(p[i])])

FailBody == Body(FailText, <<>>)
UnknownBody == Body(NoDataText, <<>>)

\* rows the extraction does not turn into a position of the page
BadDate == << "3", "1", "/", "0", "2", "/" >> \o EpochYearText
BadWeight == << "n", "/", "a" >>
HeaderRow == <<>>
PaddedRow == << OwnerCell(Some(<< " ", "FundA", " " >>)), WeightCell(Some(WeightText(1))),
                DateCell(Some(DateText(1))) >>
DummyRow == << OwnerCell(Some(<< "dummy" >>)), WeightCell(Some(WeightText(1))),
               DateCell(Some(DateText(1))) >>
DummyBadDateRow == << OwnerCell(Some(<< "dummy" >>)), WeightCell(Some(WeightText(1))),
                      DateCell(Some(BadDate)) >>
EmptyOwnerRow == << OwnerCell(None), WeightCell(Some(WeightText(1))),
                    DateCell(Some(DateText(1))) >>
NoDateRow == << OwnerCell(Some(<< "FundA" >>)), WeightCell(Some(WeightText(1))) >>
BadDateRow == << OwnerCell(Some(<< "FundA" >>)), WeightCell(Some(WeightText(1))),
                 DateCell(Some(BadDate)) >>
EmptyDateRow == << OwnerCell(Some(<< "FundA" >>)), WeightCell(Some(WeightText(1))),
                   DateCell(None) >>
BadWeightRow == << OwnerCell(Some(<< "FundA" >>)), WeightCell(Some(BadWeight)),
                   DateCell(Some(DateText(1))) >>
PeriodWeightRow == << OwnerCell(Some(<< "FundA" >>)), WeightCell(Some(<< "0", ".", "1" >>)),
                      DateCell(Some(DateText(1))) >>
TotalRow == << WeightCell(Some(WeightText(1))) >>
BadTotalRow == << WeightCell(Some(BadWeight)) >>

OddRows ==
    { HeaderRow, PaddedRow, DummyRow, DummyBadDateRow, EmptyOwnerRow, NoDateRow,
      BadDateRow, EmptyDateRow, BadWeightRow, PeriodWeightRow, TotalRow, BadTotalRow }

\* the texts a body can have outside its table: any of the three phrases,
\* and no identifier or one of the three
MarkerText(present, phrase) == IF present THEN phrase ELSE <<>>
Texts ==
    { MarkerText(f, FailText) \o MarkerText(n, NoDataText) \o MarkerText(h, SerieText)
        \o id : f \in BOOLEAN, n \in BOOLEAN, h \in BOOLEAN,
                id \in {<<>>, IsinText, ForeignIsinText, ShortIsinText} }

\* statuses other than 200 the endpoint answers with
RefusedStatuses == {301, 404}

\* the bodies that come with them: the failure page, or a page of positions
RefusedBodies(t) == {FailBody} \cup {PageBody(<< p >>) : p \in PositionsOf(t)}

\* every answer to one request of the model
AllResponses(t) ==
    {NoResponse, Truncated(HttpOk)}
    \cup {Response(st, b) : st \in RefusedStatuses, b \in RefusedBodies(t)}
    \cup {Response(HttpOk, Body(text, rows)) :
            text \in Texts,
            rows \in SeqsUpTo({GoodRow(p) : p \in PositionsOf(t)} \cup OddRows, MaxPage)}

\* the answers a run of the feeder meets: each failure once, and the page of
\* every list of positions
RunResponses(t) ==
    {NoResponse, Truncated(HttpOk)}
    \cup {Response(st, b) : st \in RefusedStatuses, b \in RefusedBodies(t)}
    \cup {Response(HttpOk, b) :
            b \in {FailBody, UnknownBody, Body(IsinText, << BadDateRow >>),
                   Body(IsinText, << BadWeightRow >>)}}
    \cup {Response(HttpOk, PageBody(p)) : p \in Pages(t)}


(* ------------------------------- state --------------------------------- *)
vars == << alive, historic, nextId, pc, ci, new_positions, stored_positions, j,
           insert_ticker, updated_tickers, result, tx, call, ops, base, visited,
           written, returned_at, response, total, directory,
                            calls, partial >>

NoCall == [position |-> None, active |-> None, uuid |-> None, ret |-> None]

\* no reconciliation is remembered; watch tells whether one would be
NoPartial == [watch |-> FALSE, ci |-> 0, page |-> <<>>, ops |-> <<>>]
Armed == [watch |-> TRUE, ci |-> 0, page |-> <<>>, ops |-> <<>>]

(* -------------------------- storage queries ---------------------------- *)
\* alive_positions INNER JOIN ibex35_short_historic ON id. The SELECTs have no
\* ORDER BY; rows come in the storage order of alive_positions, and
\* fetch_optional takes the first of them
RECURSIVE JoinFrom(_, _, _, _)
JoinFrom(al, hi, i, k) ==
    IF i > Len(al) THEN <<>>
    ELSE IF k > Len(hi) THEN JoinFrom(al, hi, i + 1, 1)
    ELSE (IF al[i] = hi[k].id
          THEN << [id |-> Some(al[i]), owner |-> hi[k].owner, weight |-> hi[k].weight,
                   open_date |-> hi[k].open_date, ticker |-> hi[k].ticker] >>
          ELSE <<>>) \o JoinFrom(al, hi, i, k + 1)

\* active_positions: ... WHERE ibex35_short_historic.ticker = $1, fetch_all
ActivePositionsOf(al, hi, t) ==
    SelectSeq(JoinFrom(al, hi, 1, 1), LAMBDA r : r.ticker = Some(t))

\* active_position: ... WHERE ticker = $1 AND owner = $2, fetch_optional
ActivePositionOf(al, hi, t, o) ==
    LET rows == SelectSeq(JoinFrom(al, hi, 1, 1), LAMBDA r : r.ticker = Some(t) /\ r.owner = Some(o))
    IN IF Len(rows) = 0 THEN None ELSE Some(rows[1])

(* ------------------------ storage statements --------------------------- *)
\* variant: a retired row is taken over instead of adding a row
InsertAliveReuseVoid(al, new) ==
    IF \E i \in DOMAIN al : al[i] = Void
    THEN [i \in DOMAIN al |-> IF al[i] = Void THEN new ELSE al[i]]
    ELSE Append(al, new)

\* variant: the statement has no where clause
RekeyAliveAll(al, old, new) == [i \in DOMAIN al |-> new]

\* UPDATE alive_positions set id = $2 where id = $1
RekeyAlive(al, old, new) == [i \in DOMAIN al |-> IF al[i] = old THEN new ELSE al[i]]

\* INSERT INTO alive_positions VALUES ($1)
InsertAlive(al, new) == Append(al, new)

\* the first statement of insert_short_position
AliveStatement(al, active, uuid) ==
    IF active # None THEN RekeyAlive(al, Unwrap(active), uuid) ELSE InsertAlive(al, uuid)

HistoricRow(uuid, p) ==
    [id |-> uuid, owner |-> Some(p.owner), weight |-> Some(p.weight),
     open_date |-> Some(p.open_date), ticker |-> Some(p.ticker)]

\* variant: no row is written when the owner already has one for the ticker
HistoricSkipKnown(hi, uuid, p) ==
    IF \E k \in DOMAIN hi : hi[k].owner = Some(p.owner) /\ hi[k].ticker = Some(p.ticker)
    THEN hi
    ELSE Append(hi, HistoricRow(uuid, p))

\* variant: the owner's row for the ticker is overwritten in place
HistoricOverwrite(hi, uuid, p) ==
    IF \E k \in DOMAIN hi : hi[k].owner = Some(p.owner) /\ hi[k].ticker = Some(p.ticker)
    THEN [k \in DOMAIN hi |->
            IF hi[k].owner = Some(p.owner) /\ hi[k].ticker = Some(p.ticker)
            THEN HistoricRow(uuid, p) ELSE hi[k]]
    ELSE Append(hi, HistoricRow(uuid, p))

\* INSERT INTO ibex35_short_historic (id, owner, weight, open_date, ticker)
HistoricStatement(hi, uuid, p) ==
    Append(hi, HistoricRow(uuid, p))

\* variant: the row is deleted
WipeAliveDelete(al, id) == SelectSeq(al, LAMBDA x : x # id)

\* UPDATE alive_positions SET id = '0000...' where id = $1
WipeAlive(al, id) == [i \in DOMAIN al |-> IF al[i] = id THEN Void ELSE al[i]]

(* ----------------------------- hydration ------------------------------- *)
\* FixedOffset::west_opt(0): the offset the stored time is read with
TzWest == 0

\* tz_offset.from_local_datetime(&o) taken back to UTC: a local time west of
\* Greenwich is that much behind UTC
FromLocalDatetime(o) == o + TzWest

\* variant: a row without ticker hydrates with an empty ticker
TryFromBdValueDefaultTicker(value) ==
    IF value.owner = None THEN ErrMsg("MissingStockInfo", "Missing owner")
    ELSE IF value.weight = None THEN ErrMsg("MissingStockInfo", "Missing weight")
    ELSE IF value.open_date = None THEN ErrMsg("MissingStockInfo", "Missing open date")
    ELSE Ok(Position(Unwrap(value.owner), Unwrap(value.weight),
                     FromLocalDatetime(Unwrap(value.open_date)),
                     IF value.ticker = None THEN "" ELSE Unwrap(value.ticker)))

\* TryFrom<ShortPositionBd> for ShortPosition
TryFromBdValue(value) ==
    IF value.owner = None THEN ErrMsg("MissingStockInfo", "Missing owner")
    ELSE IF value.weight = None THEN ErrMsg("MissingStockInfo", "Missing weight")
    ELSE IF value.open_date = None THEN ErrMsg("MissingStockInfo", "Missing open date")
    ELSE IF value.ticker = None THEN ErrMsg("MissingStockInfo", "Missing ticker")
    ELSE Ok(Position(Unwrap(value.owner), Unwrap(value.weight),
                     FromLocalDatetime(Unwrap(value.open_date)), Unwrap(value.ticker)))

\* variant: the stored time is read as local time of a zone one unit off UTC
TryFromBdLocalTime(bd) ==
    IF bd.owner = None \/ bd.weight = None \/ bd.open_date = None \/ bd.ticker = None
    THEN Err("MissingStockInfo")
    ELSE Ok(Position(Unwrap(bd.owner), Unwrap(bd.weight), Unwrap(bd.open_date) + 1,
                     Unwrap(bd.ticker)))

\* TryFrom<&ShortPositionBd> for ShortPosition
TryFromBd(bd) ==
    IF bd.owner = None THEN ErrMsg("MissingStockInfo", "Missing owner")
    ELSE IF bd.weight = None THEN ErrMsg("MissingStockInfo", "Missing weight")
    ELSE IF bd.open_date = None THEN ErrMsg("MissingStockInfo", "Missing open date")
    ELSE IF bd.ticker = None THEN ErrMsg("MissingStockInfo", "Missing ticker")
    ELSE Ok(Position(Unwrap(bd.owner), Unwrap(bd.weight),
                     FromLocalDatetime(Unwrap(bd.open_date)), Unwrap(bd.ticker)))

\* variant: the stored rows are compared by weight alone
RECURSIVE FindEqualWeight(_, _, _)
FindEqualWeight(np, st, k) ==
    IF k > Len(st) THEN "miss"
    ELSE LET op == TryFromBd(st[k])
         IN IF ~op.ok THEN "err"
            ELSE IF np.weight = op.val.weight THEN "hit"
            ELSE FindEqualWeight(np, st, k + 1)

\* the inner loop of the first pass: "hit" at the first stored row equal to
\* the new position, "err" when a row before it does not hydrate
RECURSIVE FindEqual(_, _, _)
FindEqual(np, st, k) ==
    IF k > Len(st) THEN "miss"
    ELSE LET op == TryFromBd(st[k])
         IN IF ~op.ok THEN "err"
            ELSE IF np = op.val THEN "hit"
            ELSE FindEqual(np, st, k + 1)

\* variant: the second pass matches on the ticker alone
SameTickerOnly(np, op) == np.ticker = op.ticker

\* new_position.owner == op.owner && new_position.ticker == op.ticker
SameOwnerTicker(np, op) == np.owner = op.owner /\ np.ticker = op.ticker

\* variant: the second pass asks for an equal position
RECURSIVE FindSameOwnerExact(_, _, _)
FindSameOwnerExact(old, nps, k) ==
    IF k > Len(nps) THEN "miss"
    ELSE LET op == TryFromBd(old)
         IN IF ~op.ok THEN "err"
            ELSE IF nps[k] = op.val THEN "hit"
            ELSE FindSameOwnerExact(old, nps, k + 1)

\* the inner loop of the second pass, over the new positions
RECURSIVE FindSameOwner(_, _, _)
FindSameOwner(old, nps, k) ==
    IF k > Len(nps) THEN "miss"
    ELSE LET op == TryFromBd(old)
         IN IF ~op.ok THEN "err"
            ELSE IF SameOwnerTicker(nps[k], op.val) THEN "hit"
            ELSE FindSameOwner(old, nps, k + 1)

\* what short_positions returns to a run, for each company of the loop and
\* each answer to its request
RunOutcomes ==
    [i \in DOMAIN Filtered |->
        [resp \in RunResponses(Filtered[i].ticker) |-> ShortPositionsOf(Filtered[i], resp)]]

(* ------------------------------- Init ---------------------------------- *)
Init ==
    /\ alive = <<>>
    /\ historic = <<>>
    /\ nextId = 1
    /\ pc = "idle"
    /\ ci = 0
    /\ new_positions = <<>>
    /\ stored_positions = <<>>
    /\ j = 0
    /\ insert_ticker = FALSE
    /\ updated_tickers = <<>>
    /\ result = None
    /\ tx = None
    /\ call = NoCall
    /\ ops = <<>>
    /\ base = [alive |-> <<>>, historic |-> <<>>]
    /\ visited = {}
    /\ written = {}
    /\ returned_at = None
    /\ response = None
    /\ total = None
    /\ directory \in ListingTables
    /\ calls = <<>>
    /\ partial = NoPartial

Company == Filtered[ci]

DbFail == Err("DbError")

Tables == [alive |-> alive, historic |-> historic]

\* the variables of the loop body as they are outside a company's sequence
ResetCompany ==
    /\ new_positions' = <<>>
    /\ stored_positions' = <<>>
    /\ j' = 0
    /\ insert_ticker' = FALSE
    /\ ops' = <<>>
    /\ tx' = None
    /\ call' = NoCall

\* the positions of add_today_data at which a storage write is awaited
WritePcs == {"wipe_all", "diff_old", "tx_begin", "tx_alive", "tx_hist", "tx_commit"}

\* what is remembered when the run returns r: the company, its page and the
\* writes committed for it when a storage write failed after some of them,
\* added to those of an earlier failure on the same page
Remember(r) ==
    IF ~partial.watch THEN partial
    ELSE IF pc \in WritePcs /\ ops # <<>> /\ ~r.ok /\ r.val = "DbError"
    THEN [watch |-> TRUE, ci |-> ci, page |-> new_positions,
          ops |-> (IF partial.ci = ci THEN partial.ops ELSE <<>>) \o ops]
    ELSE IF partial.ci = ci THEN Armed
    ELSE partial

\* the run returns r: `?` on an Err, a panic, or Ok(updated_tickers) after the
\* loop. The locals go out of scope; an open transaction is dropped, which
\* rolls it back, so the tables stay as committed.
Return(r) ==
    /\ pc' = "done"
    /\ result' = Some(r)
    /\ returned_at' = Some(pc)
    /\ ci' = 0
    /\ updated_tickers' = <<>>
    /\ base' = Tables
    /\ ResetCompany
    /\ partial' = Remember(r)
    /\ UNCHANGED << alive, historic, nextId, written >>

(* --------------------------- add_today_data ---------------------------- *)
\* variant: the stored rows of the first company are read before its page
StockListingReadFirst ==
    /\ pc = "idle"
    /\ \/ Return(DbFail) /\ UNCHANGED << visited, response, total, directory, calls >>
       \/ /\ StockListingOf(directory).ok
          /\ ci' = 1
          /\ pc' = "read"
          /\ UNCHANGED << alive, historic, nextId, new_positions,
                          stored_positions, j, insert_ticker, updated_tickers,
                          result, tx, call, ops, base, visited, written,
                          returned_at, response, total, directory, calls, partial >>

\* let companies = self.stock_listing().await?;
StockListing ==
    /\ pc = "idle"
    /\ \/ Return(DbFail) /\ UNCHANGED << visited, response, total, directory, calls >>
       \/ \* the rows hydrate only when they are ListingTable: the companies
          \* of the loop are then Listing
          LET companies == StockListingOf(directory)
          IN IF ~companies.ok
             THEN Return(companies) /\ UNCHANGED << visited, response, total, directory, calls >>
             ELSE IF Len(Filtered) = 0
             THEN Return(Ok(<<>>)) /\ UNCHANGED << visited, response, total, directory, calls >>
             ELSE /\ ci' = 1
                  /\ pc' = "fetch"
                  /\ UNCHANGED << alive, historic, nextId, new_positions,
                                  stored_positions, j, insert_ticker, updated_tickers,
                                  result, tx, call, ops, base, visited, written,
                                  returned_at, response, total, directory,
                            calls, partial >>

\* self.scrapper.short_positions(company).await.map_err(Box::new)?.positions
\* reqwest::get is given no timeout: when the source never answers, the
\* await never completes and the run stays where it is
ShortPositionsFrom(outcomes) ==
    /\ pc = "fetch"
    /\ \/ /\ pc' = "pending"
          /\ visited' = visited \cup {ci}
          /\ UNCHANGED << alive, historic, nextId, ci, new_positions, stored_positions,
                          j, insert_ticker, updated_tickers, result, tx, call, ops,
                          base, written, returned_at, response, total, directory,
                          calls, partial >>
       \/ \E resp \in DOMAIN outcomes :
          LET out == outcomes[resp]
          IN /\ visited' = visited \cup {ci}
             /\ response' = Some(resp)
             /\ UNCHANGED << directory, calls >>
             /\ IF out.ok
                THEN /\ new_positions' = out.val.positions
                     /\ total' = Some(out.val.total)
                     /\ partial' = IF partial.ci = ci /\ partial.page # out.val.positions
                                    THEN Armed ELSE partial
                     /\ pc' = "read"
                     /\ UNCHANGED << alive, historic, nextId, ci, stored_positions, j,
                                     insert_ticker, updated_tickers, result, tx, call,
                                     ops, base, written, returned_at >>
                ELSE Return(out) /\ total' = None

ShortPositions == ShortPositionsFrom(RunOutcomes[ci])

\* let stored_positions = self.active_positions(company.ticker()).await?;
ActivePositions ==
    /\ pc = "read"
    /\ response' = None
    /\ total' = None
    /\ UNCHANGED << directory, calls >>
    /\ \/ Return(DbFail) /\ UNCHANGED visited
       \/ /\ stored_positions' = ActivePositionsOf(alive, historic, Company.ticker)
          /\ pc' = "case"
          /\ UNCHANGED << alive, historic, nextId, ci, new_positions, j, insert_ticker,
                          updated_tickers, result, tx, call, ops, base, visited, written,
                          returned_at, partial >>

\* variant: the ticker is pushed before the cases are told apart
DispatchPushFirst ==
    /\ pc = "case"
    /\ UNCHANGED << alive, historic, nextId, ci, new_positions, stored_positions,
                    result, tx, call, ops, base, visited, written, returned_at,
                    response, total, directory, calls, partial >>
    /\ IF Len(stored_positions) = 0 /\ Len(new_positions) = 0
       THEN /\ updated_tickers' = Append(updated_tickers, Company.ticker)
            /\ pc' = "next"
            /\ UNCHANGED << j, insert_ticker >>
       ELSE IF Len(stored_positions) = 0
       THEN /\ updated_tickers' = Append(updated_tickers, Company.ticker)
            /\ j' = 1
            /\ pc' = "ins_all"
            /\ UNCHANGED insert_ticker
       ELSE IF Len(new_positions) = 0
       THEN /\ updated_tickers' = Append(updated_tickers, Company.ticker)
            /\ j' = 1
            /\ pc' = "wipe_all"
            /\ UNCHANGED insert_ticker
       ELSE /\ updated_tickers' = Append(updated_tickers, Company.ticker)
            /\ insert_ticker' = TRUE
            /\ j' = 1
            /\ pc' = "diff_new"

\* the if / else if chain that picks one of the four cases
Dispatch ==
    /\ pc = "case"
    /\ UNCHANGED << alive, historic, nextId, ci, new_positions, stored_positions,
                    result, tx, call, ops, base, visited, written, returned_at, response, total, directory,
                            calls, partial >>
    /\ IF Len(stored_positions) = 0 /\ Len(new_positions) = 0
       THEN /\ pc' = "next"
            /\ UNCHANGED << j, insert_ticker, updated_tickers >>
       ELSE IF Len(stored_positions) = 0
       THEN /\ updated_tickers' = Append(updated_tickers, Company.ticker)
            /\ j' = 1
            /\ pc' = "ins_all"
            /\ UNCHANGED insert_ticker
       ELSE IF Len(new_positions) = 0
       THEN /\ updated_tickers' = Append(updated_tickers, Company.ticker)
            /\ j' = 1
            /\ pc' = "wipe_all"
            /\ UNCHANGED insert_ticker
       ELSE /\ insert_ticker' = TRUE
            /\ j' = 1
            /\ pc' = "diff_new"
            /\ UNCHANGED updated_tickers

\* entry of insert_short_position(position, active), returning to ret
CallInsert(p, active, ret) ==
    /\ call' = [position |-> Some(p), active |-> active, uuid |-> None, ret |-> Some(ret)]
    /\ pc' = "tx_begin"

\* wipe_short_position(id) succeeded for the company
Wiped(id) ==
    /\ alive' = WipeAlive(alive, id)
    /\ ops' = Append(ops, [kind |-> "retire", id |-> id, old |-> None, idx |-> j])
    /\ written' = written \cup {Company.ticker}

\* first case: for position in new_positions { insert_short_position(&position, None) }
InsertAll ==
    /\ pc = "ins_all"
    /\ UNCHANGED << alive, historic, nextId, ci, new_positions, stored_positions,
                    insert_ticker, updated_tickers, result, tx, ops, base, visited,
                    written, returned_at, response, total, directory,
                            calls, partial >>
    /\ IF j > Len(new_positions)
       THEN /\ pc' = "next"
            /\ UNCHANGED << j, call >>
       ELSE /\ CallInsert(new_positions[j], None, "ins_all")
            /\ j' = j + 1

\* second case: for position in stored_positions.iter() { wipe or report }
WipeAll ==
    /\ pc = "wipe_all"
    /\ IF j > Len(stored_positions)
       THEN /\ pc' = "next"
            /\ UNCHANGED << alive, historic, nextId, ci, new_positions,
                            stored_positions, j, insert_ticker, updated_tickers,
                            result, tx, call, ops, base, visited, written,
                            returned_at, response, total, directory,
                            calls, partial >>
       ELSE IF stored_positions[j].id = None
       THEN /\ j' = j + 1
            /\ UNCHANGED << alive, historic, nextId, pc, ci, new_positions,
                            stored_positions, insert_ticker, updated_tickers, result,
                            tx, call, ops, base, visited, written, returned_at, response, total, directory,
                            calls, partial >>
       ELSE \/ Return(DbFail) /\ UNCHANGED << visited, response, total, directory, calls >>
            \/ /\ Wiped(Unwrap(stored_positions[j].id))
               /\ j' = j + 1
               /\ UNCHANGED << historic, nextId, pc, ci, new_positions,
                               stored_positions, insert_ticker, updated_tickers,
                               result, tx, call, base, visited, returned_at, response, total, directory,
                            calls, partial >>

\* both non-empty, first pass: is the new position already in the record?
DiffNew ==
    /\ pc = "diff_new"
    /\ IF j > Len(new_positions)
       THEN /\ j' = 1
            /\ pc' = "diff_old"
            /\ UNCHANGED << alive, historic, nextId, ci, new_positions,
                            stored_positions, insert_ticker, updated_tickers, result,
                            tx, call, ops, base, visited, written, returned_at, response, total, directory,
                            calls, partial >>
       ELSE LET found == FindEqual(new_positions[j], stored_positions, 1)
            IN IF found = "err"
               THEN Return(Err("MissingStockInfo")) /\ UNCHANGED << visited, response, total, directory, calls >>
               ELSE /\ IF found = "hit"
                       THEN /\ insert_ticker' = FALSE
                            /\ j' = j + 1
                            /\ UNCHANGED pc
                       ELSE /\ pc' = "lookup"
                            /\ UNCHANGED << j, insert_ticker >>
                    /\ UNCHANGED << alive, historic, nextId, ci, new_positions,
                                    stored_positions, updated_tickers, result, tx,
                                    call, ops, base, visited, written, returned_at, response, total, directory,
                            calls, partial >>

\* variant: the previous row is looked for among the rows read at the start
ActivePositionStale ==
    /\ pc = "lookup"
    /\ \/ Return(DbFail) /\ UNCHANGED << visited, response, total, directory, calls >>
       \/ /\ LET np == new_positions[j]
                 p == ActivePositionOf(base.alive, base.historic, np.ticker, np.owner)
             IN CallInsert(np, IF p = None THEN None ELSE Unwrap(p).id, "diff_new")
          /\ j' = j + 1
          /\ UNCHANGED << alive, historic, nextId, ci, new_positions, stored_positions,
                          insert_ticker, updated_tickers, result, tx, ops, base,
                          visited, written, returned_at, response, total, directory,
                          calls, partial >>

\* self.active_position(&new_position.ticker, &new_position.owner).await?
\* followed by insert_short_position(new_position, previous_active_position)
ActivePosition ==
    /\ pc = "lookup"
    /\ \/ Return(DbFail) /\ UNCHANGED << visited, response, total, directory, calls >>
       \/ /\ LET np == new_positions[j]
                 p == ActivePositionOf(alive, historic, np.ticker, np.owner)
             IN CallInsert(np, IF p = None THEN None ELSE Unwrap(p).id, "diff_new")
          /\ j' = j + 1
          /\ UNCHANGED << alive, historic, nextId, ci, new_positions, stored_positions,
                          insert_ticker, updated_tickers, result, tx, ops, base,
                          visited, written, returned_at, response, total, directory,
                            calls, partial >>

\* both non-empty, second pass: did a stored position drop out?
DiffOld ==
    /\ pc = "diff_old"
    /\ IF j > Len(stored_positions)
       THEN /\ updated_tickers' = IF insert_ticker
                                  THEN Append(updated_tickers, Company.ticker)
                                  ELSE updated_tickers
            /\ pc' = "next"
            /\ UNCHANGED << alive, historic, nextId, ci, new_positions,
                            stored_positions, j, insert_ticker, result, tx, call, ops,
                            base, visited, written, returned_at, response, total, directory,
                            calls, partial >>
       ELSE LET old == stored_positions[j]
                found == FindSameOwner(old, new_positions, 1)
            IN IF found = "err"
               THEN Return(Err("MissingStockInfo")) /\ UNCHANGED << visited, response, total, directory, calls >>
               ELSE IF found = "hit"
               THEN /\ j' = j + 1
                    /\ UNCHANGED << alive, historic, nextId, pc, ci, new_positions,
                                    stored_positions, insert_ticker, updated_tickers,
                                    result, tx, call, ops, base, visited, written,
                                    returned_at, response, total, directory,
                            calls, partial >>
               ELSE IF old.id = None
               THEN Return(Panic) /\ UNCHANGED << visited, response, total, directory, calls >>
               ELSE \/ Return(DbFail) /\ UNCHANGED << visited, response, total, directory, calls >>
                    \/ /\ Wiped(Unwrap(old.id))
                       /\ insert_ticker' = TRUE
                       /\ j' = j + 1
                       /\ UNCHANGED << historic, nextId, pc, ci, new_positions,
                                       stored_positions, updated_tickers, result, tx,
                                       call, base, visited, returned_at, response, total, directory,
                            calls, partial >>

(* ------------------------ insert_short_position ------------------------ *)
TxFrame ==
    UNCHANGED << ci, new_positions, stored_positions, j, insert_ticker,
                 updated_tickers, result, base, visited, returned_at, response, total, directory,
                            calls, partial >>

\* variant: an update keeps the identity it was given
TxBeginKeepId ==
    /\ pc = "tx_begin"
    /\ \/ Return(DbFail) /\ UNCHANGED << visited, response, total, directory, calls >>
       \/ /\ nextId <= MaxIds
          /\ tx' = Some(Tables)
          /\ call' = [call EXCEPT !.uuid = IF call.active # None THEN call.active
                                           ELSE Some(nextId)]
          /\ nextId' = nextId + 1
          /\ pc' = "tx_alive"
          /\ TxFrame
          /\ UNCHANGED << alive, historic, ops, written >>

\* self.pool.begin().await?  and  let uuid = uuid::Uuid::new_v4();
\* new_v4 draws 122 random bits: it is taken to return an identity that was
\* never handed out before, and never the all-zero one
TxBegin ==
    /\ pc = "tx_begin"
    /\ \/ Return(DbFail) /\ UNCHANGED << visited, response, total, directory, calls >>
       \/ /\ nextId <= MaxIds
          /\ tx' = Some(Tables)
          /\ call' = [call EXCEPT !.uuid = Some(nextId)]
          /\ nextId' = nextId + 1
          /\ pc' = "tx_alive"
          /\ TxFrame
          /\ UNCHANGED << alive, historic, ops, written >>

\* variant: the statement is executed on the pool, outside the transaction
TxAliveOnPool ==
    /\ pc = "tx_alive"
    /\ \/ Return(DbFail) /\ UNCHANGED << visited, response, total, directory, calls >>
       \/ /\ alive' = AliveStatement(alive, call.active, Unwrap(call.uuid))
          /\ tx' = Some([Unwrap(tx) EXCEPT !.alive = alive'])
          /\ pc' = "tx_hist"
          /\ TxFrame
          /\ UNCHANGED << historic, nextId, call, ops, written >>

\* transaction.execute(UPDATE alive_positions ... / INSERT INTO alive_positions ...)
TxAlive ==
    /\ pc = "tx_alive"
    /\ \/ Return(DbFail) /\ UNCHANGED << visited, response, total, directory, calls >>
       \/ /\ tx' = Some([Unwrap(tx) EXCEPT !.alive =
                          AliveStatement(@, call.active, Unwrap(call.uuid))])
          /\ pc' = "tx_hist"
          /\ TxFrame
          /\ UNCHANGED << alive, historic, nextId, call, ops, written >>

\* transaction.execute(INSERT INTO ibex35_short_historic ...)
TxHistoric ==
    /\ pc = "tx_hist"
    /\ \/ Return(DbFail) /\ UNCHANGED << visited, response, total, directory, calls >>
       \/ /\ tx' = Some([Unwrap(tx) EXCEPT !.historic =
                          HistoricStatement(@, Unwrap(call.uuid), Unwrap(call.position))])
          /\ pc' = "tx_commit"
          /\ TxFrame
          /\ UNCHANGED << alive, historic, nextId, call, ops, written >>

\* transaction.commit().await?  and  Ok(uuid)
TxCommit ==
    /\ pc = "tx_commit"
    /\ \/ Return(DbFail) /\ UNCHANGED << visited, response, total, directory, calls >>
       \/ /\ alive' = Unwrap(tx).alive
          /\ historic' = Unwrap(tx).historic
          /\ ops' = Append(ops, [kind |-> IF call.active = None THEN "insert" ELSE "update",
                                 id |-> Unwrap(call.uuid), old |-> call.active,
                                 idx |-> j - 1])
          /\ written' = written \cup {Company.ticker}
          /\ tx' = None
          /\ pc' = Unwrap(call.ret)
          /\ call' = NoCall
          /\ TxFrame
          /\ UNCHANGED nextId

(* ------------------------------ loop end ------------------------------- *)
\* end of the for body: the next company, or Ok(updated_tickers)
NextCompany ==
    /\ pc = "next"
    /\ IF ci < Len(Filtered)
       THEN /\ ci' = ci + 1
            /\ pc' = "fetch"
            /\ base' = Tables
            /\ ResetCompany
            /\ partial' = IF partial.ci = ci THEN Armed ELSE partial
            /\ UNCHANGED << alive, historic, nextId, updated_tickers, result, visited,
                            written, returned_at, response, total, directory,
                            calls >>
       ELSE Return(Ok(updated_tickers)) /\ UNCHANGED << visited, response, total, directory, calls >>

\* the caller takes the result; the feeder can be run again
Finish ==
    /\ pc = "done"
    /\ pc' = "idle"
    /\ result' = None
    /\ returned_at' = None
    /\ visited' = {}
    /\ written' = {}
    /\ response' = None
    /\ total' = None
    /\ UNCHANGED << directory, calls, partial >>
    /\ UNCHANGED << alive, historic, nextId, ci, new_positions, stored_positions, j,
                    insert_ticker, updated_tickers, tx, call, ops, base >>

Next ==
    \/ StockListing
    \/ ShortPositions
    \/ ActivePositions
    \/ Dispatch
    \/ InsertAll
    \/ WipeAll
    \/ DiffNew
    \/ ActivePosition
    \/ DiffOld
    \/ TxBegin
    \/ TxAlive
    \/ TxHistoric
    \/ TxCommit
    \/ NextCompany
    \/ Finish

Spec == Init /\ [][Next]_vars

\* the executor polls the future of add_today_data whenever it can go on
SpecLive == Init /\ [][Next]_vars /\ WF_vars(Next)

(* ------------------- short_positions on its own ------------------------ *)
\* one call of short_positions for a company with an identifier, on any
\* answer of the model, from the state add_today_data makes the call in
InitScrape ==
    /\ alive = <<>>
    /\ historic = <<>>
    /\ nextId = 1
    /\ pc = "fetch"
    /\ ci \in DOMAIN Filtered
    /\ new_positions = <<>>
    /\ stored_positions = <<>>
    /\ j = 0
    /\ insert_ticker = FALSE
    /\ updated_tickers = <<>>
    /\ result = None
    /\ tx = None
    /\ call = NoCall
    /\ ops = <<>>
    /\ base = [alive |-> <<>>, historic |-> <<>>]
    /\ visited = {}
    /\ written = {}
    /\ returned_at = None
    /\ response = None
    /\ total = None
    /\ directory = ListingTable
    /\ calls = <<>>
    /\ partial = NoPartial

ScrapeAny ==
    ShortPositionsFrom([resp \in AllResponses(Company.ticker)
                           |-> ShortPositionsOf(Company, resp)])

SpecScrape == InitScrape /\ [][ScrapeAny]_vars

(* --------------------- runs after a failed write ------------------------ *)
\* as Init, and a reconciliation that a failed write cuts short is remembered
InitRecovery ==
    /\ alive = <<>>
    /\ historic = <<>>
    /\ nextId = 1
    /\ pc = "idle"
    /\ ci = 0
    /\ new_positions = <<>>
    /\ stored_positions = <<>>
    /\ j = 0
    /\ insert_ticker = FALSE
    /\ updated_tickers = <<>>
    /\ result = None
    /\ tx = None
    /\ call = NoCall
    /\ ops = <<>>
    /\ base = [alive |-> <<>>, historic |-> <<>>]
    /\ visited = {}
    /\ written = {}
    /\ returned_at = None
    /\ response = None
    /\ total = None
    /\ directory = ListingTable
    /\ calls = <<>>
    /\ partial = Armed

SpecRecovery == InitRecovery /\ [][Next]_vars

(* -------------------- the library functions on their own --------------- *)
\* a ShortPositionBd as a query can hand it over: every column is nullable
ShortPositionBds ==
    [id : {None, Some(1)}, owner : {None, Some("FundA")}, weight : {None, Some(1)},
     open_date : {None, Some(1)}, ticker : {None, Some("SLR")}]

\* no run of add_today_data is going on; nothing has been called yet
InitCalls ==
    /\ alive = <<>>
    /\ historic = <<>>
    /\ nextId = 1
    /\ pc = "idle"
    /\ ci = 0
    /\ new_positions = <<>>
    /\ stored_positions = <<>>
    /\ j = 0
    /\ insert_ticker = FALSE
    /\ updated_tickers = <<>>
    /\ result = None
    /\ tx = None
    /\ call = NoCall
    /\ ops = <<>>
    /\ base = [alive |-> <<>>, historic |-> <<>>]
    /\ visited = {}
    /\ written = {}
    /\ returned_at = None
    /\ response = None
    /\ total = None
    /\ directory = ListingTable
    /\ calls = <<>>
    /\ partial = NoPartial

Called(entry) ==
    /\ Len(calls) < MaxCalls
    /\ calls' = Append(calls, entry)
    /\ UNCHANGED << alive, historic, nextId, pc, ci, new_positions, stored_positions, j,
                    insert_ticker, updated_tickers, result, tx, call, ops, base,
                    visited, written, returned_at, response, total, directory, partial >>

\* ShortResponse::parse(s) on a text of the model
ParseCall ==
    \E s \in Texts : Called([arg |-> s, out |-> ShortResponseParse(s)])

SpecParse == InitCalls /\ [][ParseCall]_vars

\* ShortPosition::try_from(&row), then ShortPosition::try_from(row)
TryFromCall ==
    \E row \in ShortPositionBds :
        Called([arg |-> row, by_ref |-> TryFromBd(row), out |-> TryFromBdValue(row)])

SpecHydrate == InitCalls /\ [][TryFromCall]_vars

(* ------------------- a stored row without identity -------------------- *)
\* a row as active_positions hands it over, its id column read as NULL
NoIdRow(p) ==
    [id |-> None, owner |-> Some(p.owner), weight |-> Some(p.weight),
     open_date |-> Some(p.open_date), ticker |-> Some(p.ticker)]

\* the rows of a store that holds the position p under the identity 1
StoreOf(p) == [alive |-> << 1 >>, historic |-> << HistoricRow(1, p) >>]

\* add_today_data has fetched the page of a company and active_positions has
\* just returned: the rows of the store, if it holds one, and a row whose
\* id is NULL
InitCorrupt ==
    /\ ci \in DOMAIN Filtered
    /\ \E p \in PositionsOf(Filtered[ci].ticker), q \in PositionsOf(Filtered[ci].ticker) :
          \/ /\ alive = <<>>
             /\ historic = <<>>
             /\ nextId = 1
             /\ stored_positions = << NoIdRow(q) >>
          \/ /\ alive = StoreOf(p).alive
             /\ historic = StoreOf(p).historic
             /\ nextId = 2
             /\ stored_positions \in
                   { ActivePositionsOf(alive, historic, p.ticker) \o << NoIdRow(q) >>,
                     << NoIdRow(q) >> \o ActivePositionsOf(alive, historic, p.ticker) }
    /\ pc = "case"
    /\ new_positions \in Pages(Filtered[ci].ticker)
    /\ j = 0
    /\ insert_ticker = FALSE
    /\ updated_tickers = <<>>
    /\ result = None
    /\ tx = None
    /\ call = NoCall
    /\ ops = <<>>
    /\ base = [alive |-> alive, historic |-> historic]
    /\ visited = 1..ci
    /\ written = {}
    /\ returned_at = None
    /\ response = None
    /\ total = None
    /\ directory = ListingTable
    /\ calls = <<>>
    /\ partial = NoPartial

SpecCorrupt == InitCorrupt /\ [][Next]_vars

TypeOK ==
    /\ pc \in {"idle", "fetch", "read", "case", "ins_all", "wipe_all", "diff_new",
               "lookup", "diff_old", "tx_begin", "tx_alive", "tx_hist", "tx_commit",
               "next", "done", "pending"}
    /\ nextId \in 1..(MaxIds + 1)
    /\ \A i \in DOMAIN alive : alive[i] \in 0..MaxIds
    /\ (tx # None) <=> (pc \in {"tx_alive", "tx_hist", "tx_commit"})

(* ------------------------- vocabulary of the claims -------------------- *)
Range(f) == {f[i] : i \in DOMAIN f}

\* the (owner, weight, date, ticker) a joined row shows
RowPosition(r) ==
    [owner |-> r.owner[1], weight |-> r.weight[1], open_date |-> r.open_date[1],
     ticker |-> r.ticker[1]]

\* the active positions of a ticker as read back from the store
ActiveOf(t) ==
    LET rows == ActivePositionsOf(alive, historic, t)
    IN [i \in DOMAIN rows |-> RowPosition(rows[i])]

\* the stored snapshot of the company being reconciled
StoredOf == [i \in DOMAIN stored_positions |-> RowPosition(stored_positions[i])]

Count(seq, x) == Cardinality({i \in DOMAIN seq : seq[i] = x})

SameMultiset(a, b) == \A x \in Range(a) \cup Range(b) : Count(a, x) = Count(b, x)

SameKey(a, b) == a.owner = b.owner /\ a.ticker = b.ticker

\* no two positions of the sequence are about the same (owner, ticker)
NoDuplicateKey(seq) == \A a, b \in DOMAIN seq : a # b => ~SameKey(seq[a], seq[b])

\* the company's reconciliation ran to the end of the loop body without an error
Reconciled == pc = "next"

Kinds == {ops[i].kind : i \in DOMAIN ops}

Changed == Company.ticker \in Range(updated_tickers)

(* C1 (as stated): whenever a company's reconciliation has run to its end,  *)
(* the active positions read back from the store are exactly the current    *)
(* positions, as a multiset of (owner, ticker, weight, date).               *)
C1_CompletenessAnyPair ==
    Reconciled => SameMultiset(ActiveOf(Company.ticker), new_positions)

(* C1 (amended): the same, for the pairs in which neither the stored nor    *)
(* the current positions hold two positions of one (owner, ticker).         *)
C1_Completeness ==
    (Reconciled /\ NoDuplicateKey(new_positions) /\ NoDuplicateKey(StoredOf))
        => SameMultiset(ActiveOf(Company.ticker), new_positions)

\* a reconciliation that updated one position and retired another
C1_Witness ==
    /\ Reconciled
    /\ NoDuplicateKey(new_positions)
    /\ NoDuplicateKey(StoredOf)
    /\ {"update", "retire"} \subseteq Kinds
    /\ SameMultiset(ActiveOf(Company.ticker), new_positions)

(* C2: a company for which reconciliation committed at least one insert,    *)
(* update or retire is in the list of changed tickers. Stated on the pages  *)
(* and stored sets without two positions of one (owner, ticker), where the  *)
(* mix is of already-known, new, updated and dropped positions only.        *)
C2_ChangedIfWritten ==
    (Reconciled /\ ops # <<>> /\ NoDuplicateKey(new_positions) /\ NoDuplicateKey(StoredOf))
        => Changed

(* C3: a run that got past the company directory ends with Ok(changed       *)
(* tickers) and has run the sequence of every company with an identifier,   *)
(* whatever failed for an earlier company.                                  *)
C3_BatchContinues ==
    (pc = "done" /\ visited # {})
        => (result[1].ok /\ visited = DOMAIN Filtered)

\* the stored and the current positions agree: nothing to write
NothingToDo ==
    /\ \A i \in DOMAIN new_positions : new_positions[i] \in Range(StoredOf)
    /\ \A k \in DOMAIN StoredOf :
          \E i \in DOMAIN new_positions : SameKey(new_positions[i], StoredOf[k])

ReconcilePcs == {"case", "ins_all", "wipe_all", "diff_new", "lookup", "diff_old",
                 "tx_begin", "tx_alive", "tx_hist", "tx_commit", "next"}

(* C4: when every current position equals a stored one and every stored    *)
(* position has a current one of its owner and ticker (both may be empty),  *)
(* reconciliation starts no write, commits none, leaves both tables as they *)
(* were and does not list the ticker as changed.                            *)
C4_NoSpuriousWrites ==
    (pc \in ReconcilePcs /\ NothingToDo)
        => /\ pc \in {"case", "diff_new", "diff_old", "next"}
           /\ ops = <<>>
           /\ Tables = base
           /\ ~Changed

\* an unchanged company with two stored positions, reconciled
C4_Witness ==
    /\ Reconciled
    /\ NothingToDo
    /\ Len(stored_positions) = 2
    /\ Len(new_positions) = 2
    /\ ops = <<>>

TxPcs == {"tx_begin", "tx_alive", "tx_hist", "tx_commit"}

\* every active-set row with a non-void identity has a historical row
NoDanglingAlive ==
    \A i \in DOMAIN alive :
        alive[i] # Void => \E k \in DOMAIN historic : historic[k].id = alive[i]

\* a step of insert_short_position shows nothing, or at its commit everything
TxStepAtomic ==
    pc \in TxPcs =>
        IF pc = "tx_commit" /\ pc' # "done"
        THEN /\ tx' = None
             /\ Len(historic') = Len(historic) + 1
             /\ historic'[Len(historic')].id = call.uuid[1]
             /\ call.uuid[1] \in Range(alive')
             /\ call.uuid[1] \notin Range(alive)
        ELSE Tables' = Tables

(* C5: insert_short_position is all-or-nothing and is one transaction per   *)
(* write: no step of it shows in the tables before its commit, a failure at *)
(* begin, at either statement or at commit leaves both tables as they were, *)
(* the commit shows the active-set identity and its historical row at once, *)
(* and no state has a non-void active-set identity without historical row.  *)
C5_AtomicWrites ==
    /\ []NoDanglingAlive
    /\ [][TxStepAtomic]_vars

\* the historical insert failed after the active-set statement had run
C5_Witness ==
    /\ pc = "done"
    /\ returned_at = Some("tx_hist")
    /\ result = Some(DbFail)
    /\ alive # <<>>

HistoricRowsOf(id) == {k \in DOMAIN historic : historic[k].id = id}

(* C6 (as stated): every row of the active set has exactly one historical   *)
(* row with the same id.                                                    *)
C6_ExactlyOneHistoricAnyRow ==
    \A i \in DOMAIN alive : Cardinality(HistoricRowsOf(alive[i])) = 1

(* C6 (amended): every row of the active set whose identity is not the void *)
(* token has exactly one historical row with the same id; a retired row has *)
(* none.                                                                    *)
C6_ExactlyOneHistoric ==
    \A i \in DOMAIN alive :
        Cardinality(HistoricRowsOf(alive[i])) = IF alive[i] = Void THEN 0 ELSE 1

\* the store after an insert, an update and a retire
C6_Witness ==
    /\ \E i \in DOMAIN alive : alive[i] = Void
    /\ \E i \in DOMAIN alive : alive[i] # Void
    /\ Len(historic) > Len(alive)
    /\ pc = "idle"

\* the step is a successful wipe_short_position of the stored row at j
WipeStep ==
    /\ pc \in {"wipe_all", "diff_old"}
    /\ Len(ops') = Len(ops) + 1

\* the wipe re-keys the rows of the identity to void and touches nothing else
WipeEffect ==
    LET id == stored_positions[j].id[1]
    IN /\ id # Void
       /\ \E i \in DOMAIN alive : alive[i] = id
       /\ DOMAIN alive' = DOMAIN alive
       /\ \A i \in DOMAIN alive : alive'[i] = IF alive[i] = id THEN Void ELSE alive[i]
       /\ historic' = historic

(* C7: a successful wipe_short_position(id) sets the identity of the        *)
(* active-set rows whose identity is id to the void token and changes       *)
(* nothing else: no row leaves either table, the historical table and every *)
(* other active-set row stay as they were.                                  *)
C7_RetireNotDelete ==
    [][WipeStep => WipeEffect]_vars

\* a retire has run in the second pass and left another active row alone
C7_Witness ==
    /\ pc = "diff_old"
    /\ ops # <<>>
    /\ ops[Len(ops)].kind = "retire"
    /\ \E i \in DOMAIN alive : alive[i] = Void
    /\ \E i \in DOMAIN alive : alive[i] # Void
    /\ \E k \in DOMAIN historic : historic[k].id = ops[Len(ops)].id

\* the step is the commit of an update (a re-key of an active row)
UpdateCommit ==
    /\ pc = "tx_commit"
    /\ pc' # "done"
    /\ call.active # None

\* the step keeps the historical rows and, for an update, appends the new one
AppendOnlyStep ==
    /\ Len(historic') >= Len(historic)
    /\ \A k \in DOMAIN historic : historic'[k] = historic[k]
    /\ UpdateCommit =>
          /\ Len(historic') = Len(historic) + 1
          /\ RowPosition(historic'[Len(historic')]) = call.position[1]
          /\ \E k \in DOMAIN historic : historic[k].id = call.active[1]

(* C8: the historical table is append-only: every step keeps every          *)
(* historical row at its place with the same id, owner, weight, date and    *)
(* ticker, and the commit of an update appends exactly one row, carrying    *)
(* the new fields, after the rows that were there.                          *)
C8_HistoricAppendOnly ==
    [][AppendOnlyStep]_vars

\* an update was committed and the row it replaced is still in the history
C8_Witness ==
    \E n \in DOMAIN ops :
        /\ ops[n].kind = "update"
        /\ \E k \in DOMAIN historic :
              /\ historic[k].id = ops[n].old[1]
              /\ \E m \in DOMAIN historic : m > k /\ historic[m].id = ops[n].id

\* the identities of the store when the company started
BaseIds == Range(base.alive) \cup {base.historic[k].id : k \in DOMAIN base.historic}

\* the writes committed for the current position at index i
WritesFor(i) == {n \in DOMAIN ops : ops[n].kind \in {"insert", "update"} /\ ops[n].idx = i}

\* the current position at i changed an already stored position
IsUpdateOf(i, k) ==
    /\ new_positions[i] \notin Range(StoredOf)
    /\ SameKey(StoredOf[k], new_positions[i])

\* what reconciliation did for an updated position, but for the change mark
UpdateShape(i, k) ==
    /\ Cardinality(WritesFor(i)) = 1
    /\ \A n \in WritesFor(i) :
          /\ ops[n].kind = "update"
          /\ ops[n].old = stored_positions[k].id
          /\ ops[n].id \notin BaseIds \cup {Void}
          /\ ops[n].id \in Range(alive)
          /\ \E m \in DOMAIN historic :
                /\ m > Len(base.historic)
                /\ historic[m].id = ops[n].id
                /\ RowPosition(historic[m]) = new_positions[i]
    /\ \A n \in DOMAIN ops : ops[n].kind = "retire" => Some(ops[n].id) # stored_positions[k].id
    /\ Len(alive) = Len(base.alive)
                      + Cardinality({n \in DOMAIN ops : ops[n].kind = "insert"})

BothNonEmpty == stored_positions # <<>> /\ new_positions # <<>>

(* C9: in the both-non-empty case a current position that equals no stored  *)
(* position but has a stored row of its (ticker, owner) gets exactly one    *)
(* update: the stored row is re-keyed to a new identity and one historical  *)
(* row with the new fields is appended, no active-set row is added for it,  *)
(* the old row is not retired, and the company is marked changed. Stated on *)
(* the pages and stored sets without two positions of one (owner, ticker).  *)
C9_UpdateNotInsertRetire ==
    (Reconciled /\ BothNonEmpty /\ NoDuplicateKey(new_positions) /\ NoDuplicateKey(StoredOf))
        => \A i \in DOMAIN new_positions : \A k \in DOMAIN stored_positions :
              IsUpdateOf(i, k) => (UpdateShape(i, k) /\ Changed)

(* C10: when stored is empty and current is not, reconciliation commits one *)
(* insert per current position, in page order: the active set grows by      *)
(* |current| rows with new identities, its earlier rows are untouched, one  *)
(* historical row per position is appended with the position's owner,       *)
(* weight, date and ticker, and the company is marked changed.              *)
C10_FreshIssuance ==
    (Reconciled /\ stored_positions = <<>> /\ new_positions # <<>>)
        => /\ Len(ops) = Len(new_positions)
           /\ \A i \in DOMAIN ops :
                 ops[i].kind = "insert" /\ ops[i].idx = i /\ ops[i].old = None
           /\ Len(alive) = Len(base.alive) + Len(new_positions)
           /\ SubSeq(alive, 1, Len(base.alive)) = base.alive
           /\ Len(historic) = Len(base.historic) + Len(new_positions)
           /\ SubSeq(historic, 1, Len(base.historic)) = base.historic
           /\ \A i \in DOMAIN new_positions :
                 LET id == alive[Len(base.alive) + i]
                     row == historic[Len(base.historic) + i]
                 IN /\ id \notin BaseIds \cup {Void}
                    /\ \A m \in DOMAIN new_positions :
                          m # i => alive[Len(base.alive) + m] # id
                    /\ row.id = id
                    /\ RowPosition(row) = new_positions[i]
           /\ Changed

\* two first-time positions were inserted next to rows that were there before
C10_Witness ==
    /\ Reconciled
    /\ stored_positions = <<>>
    /\ Len(new_positions) = 2
    /\ base.alive # <<>>
    /\ Len(ops) = 2

\* wipe_short_position was committed in this reconciliation for the identity
\* the k-th stored position was read with
Retired(k) ==
    \E i \in DOMAIN ops :
        ops[i].kind = "retire" /\ Some(ops[i].id) = stored_positions[k].id

\* the k-th stored position has a current position of its owner and ticker
HasCounterpart(k) ==
    \E i \in DOMAIN new_positions : SameKey(new_positions[i], StoredOf[k])

(* C11: when a company's reconciliation has run to its end, a stored        *)
(* position was retired exactly when it dropped out: every stored position  *)
(* if there is no current position, otherwise exactly those without a       *)
(* current position of the same owner and ticker; and whenever a position   *)
(* was retired the company is in the list of changed tickers.               *)
C11_RetireExactlyDropped ==
    Reconciled =>
        /\ \A k \in DOMAIN stored_positions :
              Retired(k) <=> (new_positions = <<>> \/ ~HasCounterpart(k))
        /\ ("retire" \in Kinds => Changed)

\* both sets non-empty: one stored position kept, the other retired
C11_Witness ==
    /\ Reconciled
    /\ new_positions # <<>>
    /\ \E k \in DOMAIN stored_positions : Retired(k) /\ ~HasCounterpart(k)
    /\ \E k \in DOMAIN stored_positions : ~Retired(k) /\ HasCounterpart(k)
    /\ Changed

(* ------------------- vocabulary of the scraper claims ------------------ *)
\* a request was answered and short_positions has returned
Answered == response # None
Resp == Unwrap(response)
\* the text ShortResponse::parse was given
Raw == RawText(Resp.body)
\* the answer reached ShortResponse::parse
Classified == Answered /\ Resp.sent /\ Resp.status = 200 /\ Resp.read

\* short_positions returned the error e with message m
ReturnedError(e, m) ==
    /\ pc = "done"
    /\ result # None
    /\ ~result[1].ok
    /\ result[1].val = e
    /\ "msg" \in DOMAIN result[1]
    /\ result[1].msg = m

HasFailMarker(s) == \E i \in DOMAIN s : s[i] = FailText[1]
HasNoDataMarker(s) == \E i \in DOMAIN s : s[i] = NoDataText[1]
HasSerieMarker(s) == \E i \in DOMAIN s : s[i] = SerieText[1]

\* two letters followed by ten digits somewhere in the text
HasIdentifierShape(s) ==
    \E i \in 1..(Len(s) - 11) :
        /\ \A k \in 0..1 : s[i + k] \in {"E", "S", "L", "U"}
        /\ \A k \in 2..11 : s[i + k] \in Range(DigitChars)

\* the table of the answer has no td cell
NoCells == \A k \in DOMAIN Resp.body.rows : Resp.body.rows[k] = <<>>

(* C12: ShortResponse::parse returns the external-service error for every   *)
(* body that contains the "request could not be completed" marker, whatever *)
(* other markers it contains; and whenever classification fails,            *)
(* short_positions returns that very error and no row is extracted.         *)
C12_FailMarkerWins ==
    Classified =>
        LET r == ShortResponseParse(Raw)
        IN /\ HasFailMarker(Raw) =>
                /\ ~r.ok
                /\ r.val = "ExternalError"
                /\ ReturnedError("ExternalError", ExternalServerMsg)
           /\ ~r.ok => (pc = "done" /\ result = Some(r) /\ new_positions = <<>>)

\* a body with all three markers, an identifier and a row that extraction
\* would not survive: the external-service error is what comes back
C12_Witness ==
    /\ Classified
    /\ HasFailMarker(Raw) /\ HasNoDataMarker(Raw) /\ HasSerieMarker(Raw)
    /\ HasIdentifierShape(Raw)
    /\ Resp.body.rows = << BadWeightRow >>
    /\ ReturnedError("ExternalError", ExternalServerMsg)

\* a body the no-data rule is about
NoDataOnly(s) == ~HasFailMarker(s) /\ HasNoDataMarker(s) /\ ~HasSerieMarker(s)

(* C13: parse accepts every body that has no failure marker,    *)
(* has the no-data marker, lacks the historical-series marker and contains  *)
(* two letters followed by ten digits, for any two letters; the page,       *)
(* whose table has no cell, then extracts to zero positions.                *)
C13_AcceptsAnyIdentifier ==
    (Classified /\ NoDataOnly(Raw) /\ HasIdentifierShape(Raw))
        => /\ ShortResponseParse(Raw).ok
           /\ NoCells => (pc = "read" /\ new_positions = <<>>)

\* parse answered UnknownCompany, and so did short_positions
UnknownCompany ==
    /\ ~ShortResponseParse(Raw).ok
    /\ ShortResponseParse(Raw).val = "UnknownCompany"
    /\ pc = "done"
    /\ result = Some(Err("UnknownCompany"))

\* parse accepted the body with its text unchanged
Accepted == ShortResponseParse(Raw).ok /\ ShortResponseParse(Raw).val = Raw

(* C14: parse fails with unknown-company if and only if the body has no     *)
(* failure marker, has the no-data marker and has neither the               *)
(* historical-series marker nor two letters followed by ten digits; every   *)
(* body without the failure marker and without the no-data marker, and      *)
(* every no-data body with the historical-series marker, is accepted with   *)
(* its text unchanged.                                                      *)
C14_UnknownIffNoIdentifier ==
    Classified =>
        /\ UnknownCompany <=> (NoDataOnly(Raw) /\ ~HasIdentifierShape(Raw))
        /\ (~HasFailMarker(Raw) /\ (~HasNoDataMarker(Raw) \/ HasSerieMarker(Raw)))
              => Accepted

\* the companies of the listing without an external identifier
NoIdentifier == {Listing[i].ticker : i \in {k \in DOMAIN Listing : Listing[k].extra_id = None}}

\* the run is inside the loop body, working on one company
InLoop == pc \notin {"idle", "done"}

(* C15: a company without the external identifier is skipped silently: it   *)
(* is never the company a fetch, a storage read or a write is made for, no  *)
(* row of it is stored, no run ends with the missing-identifier error, and  *)
(* its ticker is neither in the list being built nor in the list returned.  *)
C15_SkippedSilently ==
    \A t \in NoIdentifier :
        /\ InLoop => (Company.ticker # t /\ Company.extra_id # None)
        /\ t \notin written
        /\ \A k \in DOMAIN historic : historic[k].ticker # Some(t)
        /\ t \notin Range(updated_tickers)
        /\ pc = "done" =>
              IF result[1].ok THEN t \notin Range(result[1].val)
              ELSE result[1].val # "MissingIsin"

\* a run over the whole listing: the companies before and after the one
\* without identifier changed, and the list returned holds just these two
C15_Witness ==
    /\ pc = "done"
    /\ result[1].ok
    /\ result[1].val = << "SLR", "GRF" >>
    /\ visited = DOMAIN Filtered
    /\ NoIdentifier = {"FER"}

\* the run got the company directory
PastListing == returned_at # Some("idle")

(* C16: an answer whose status is not 200 makes short_positions return the  *)
(* external-service error carrying the status text, whatever its body is,   *)
(* and no position is produced; no company is fetched a second time in a    *)
(* run; and a run that got the directory has fetched every company with an  *)
(* identifier when it ends.                                                 *)
C16_RefusedOnceEach ==
    /\ (Answered /\ Resp.sent /\ Resp.status # 200)
          => /\ ReturnedError("ExternalError", ToString(Resp.status))
             /\ new_positions = <<>>
    /\ pc = "fetch" => ci \notin visited
    /\ (pc = "done" /\ PastListing) => visited = DOMAIN Filtered

\* the directory has a row without name, ticker or ISIN
BrokenDirectory == ~StockListingOf(directory).ok

(* C17: a run ends with the list of changed tickers, or with an error and   *)
(* then it is the company directory that could not be obtained; and when    *)
(* the directory query fails or a listed row lacks its name, ticker or      *)
(* ISIN, the run returns an error before any fetch and any storage write.   *)
C17_TwoEndings ==
    /\ pc = "done" => (result[1].ok \/ returned_at = Some("idle"))
    /\ BrokenDirectory =>
          /\ pc \in {"idle", "done"}
          /\ pc = "done" => (result = Some(DbFail) /\ returned_at = Some("idle"))
    /\ (pc = "done" /\ returned_at = Some("idle"))
          => (~result[1].ok /\ visited = {} /\ written = {} /\ Tables = base)

(* --------------------- vocabulary of the table claims ------------------ *)
Rows == Resp.body.rows

\* the page passed classification: its rows are what extraction reads
Extracting == Classified /\ ShortResponseParse(Raw).ok

\* short_positions returned a snapshot
Snapshot == pc = "read"

\* short_positions returned an error value; a panic is not one
ErrorValue == pc = "done" /\ result # None /\ ~result[1].ok /\ result[1].val # "panic"

IsOwnerCell(td) == td.class = Some("Izquierda")
IsWeightCell(td) == td.class = None /\ td.data_th = Some("% sobre el capital")
IsDateCell(td) == td.class = None /\ td.data_th = Some("Fecha de la posicion")

HasOwnerCell(row) == \E c \in DOMAIN row : IsOwnerCell(row[c])

\* the rows with an owner cell, in page order
OwnerRows == SelectSeq(Rows, HasOwnerCell)

\* the words of the owner cell of a row
OwnerWords(row) ==
    LET td == row[CHOOSE c \in DOMAIN row : IsOwnerCell(row[c])]
    IN IF td.text = None THEN <<>>
       ELSE SelectSeq(Unwrap(td.text), LAMBDA w : w # " ")

\* the texts a weight cell of the model can hold that are a number once the
\* comma is a period
GoodWeights == {WeightText(w) : w \in Weights} \cup {<< "0", ".", "1" >>}

\* the row has a weight cell whose text is not a number
BadlyWeighted(row) ==
    \E c \in DOMAIN row :
        IsWeightCell(row[c]) /\ row[c].text # None /\ Unwrap(row[c].text) \notin GoodWeights

(* C18: a row contributes a position exactly when it has an owner cell,     *)
(* whatever the trimmed text of that cell is: a snapshot holds one position *)
(* for each row with an owner cell, in page order, with that text as owner; *)
(* and a page none of whose rows has an owner cell gives the empty snapshot *)
(* and no error. Stated on the pages whose weight cells all hold numbers.   *)
C18_OwnerRowsContribute ==
    (Extracting /\ ~\E k \in DOMAIN Rows : BadlyWeighted(Rows[k])) =>
        /\ Snapshot =>
              /\ Len(new_positions) = Len(OwnerRows)
              /\ \A i \in DOMAIN new_positions :
                    << new_positions[i].owner >> = OwnerWords(OwnerRows[i])
        /\ OwnerRows = <<>> => (Snapshot /\ new_positions = <<>>)

\* the texts a date cell of the model can hold that are a day/month/year date
GoodDates == {DateText(d) : d \in Dates}

\* the row has an owner cell and no date cell with a date
BadlyDated(row) ==
    /\ HasOwnerCell(row)
    /\ ~\E c \in DOMAIN row :
          IsDateCell(row[c]) /\ row[c].text # None /\ Unwrap(row[c].text) \in GoodDates

(* C19: when a row with an owner cell has no date cell, or a date cell      *)
(* whose content is not a day/month/year date, short_positions returns an   *)
(* error value for the page and no position of any row.                     *)
C19_BadDateRejectsPage ==
    (Extracting /\ \E k \in DOMAIN Rows : BadlyDated(Rows[k]))
        => (ErrorValue /\ new_positions = <<>>)

(* C20: when a weight cell's text does not parse as a number after the      *)
(* comma is replaced by a period, short_positions returns an error value:   *)
(* the run is not aborted and no snapshot, with a default weight or any     *)
(* other, is returned.                                                      *)
C20_BadWeightIsErrorValue ==
    (Extracting /\ \E k \in DOMAIN Rows : BadlyWeighted(Rows[k]))
        => (ErrorValue /\ new_positions = <<>>)

\* the weights of a sequence of positions, added up
RECURSIVE WeightSum(_)
WeightSum(ps) ==
    IF ps = <<>> THEN 0
    ELSE ps[Len(ps)].weight + WeightSum(SubSeq(ps, 1, Len(ps) - 1))

(* C21: every snapshot short_positions returns has a total equal to the     *)
(* sum of the weights of its positions; the snapshot of a page without a    *)
(* row that has an owner cell has no position and total 0; every position   *)
(* of the snapshot carries the ticker of the company asked for.             *)
C21_SnapshotInvariants ==
    Snapshot =>
        /\ total = Some(WeightSum(new_positions))
        /\ OwnerRows = <<>> => (new_positions = <<>> /\ total = Some(0))
        /\ \A k \in DOMAIN new_positions : new_positions[k].ticker = Company.ticker

\* a snapshot of two positions with different weights
C21_Witness ==
    /\ Snapshot
    /\ Len(new_positions) = 2
    /\ new_positions[1].weight # new_positions[2].weight
    /\ total = Some(new_positions[1].weight + new_positions[2].weight)

\* two outcomes of ShortResponse::parse are the same: the same text
\* accepted, or the same kind of error with the same message
SameOutcome(a, b) ==
    /\ a.ok = b.ok
    /\ a.val = b.val
    /\ ~a.ok => (("msg" \in DOMAIN a) = ("msg" \in DOMAIN b))
    /\ (~a.ok /\ "msg" \in DOMAIN a /\ "msg" \in DOMAIN b) => a.msg = b.msg

Needed(row) == << row.owner, row.weight, row.open_date, row.ticker >>

(* C23: hydrating a stored row fails with the missing-information error     *)
(* exactly when its owner, weight, open date or ticker is missing, a        *)
(* missing id does not make it fail and no default is put in place of a     *)
(* missing column; when it succeeds the four fields are those of the row;   *)
(* the conversion by value and the one by reference give the same result.   *)
C23_HydrationFaithful ==
    \A c \in DOMAIN calls :
        LET row == calls[c].arg
            res == calls[c].out
        IN /\ res.ok <=> (\A f \in DOMAIN Needed(row) : Needed(row)[f] # None)
           /\ ~res.ok => res.val = "MissingStockInfo"
           /\ res.ok => << Some(res.val.owner), Some(res.val.weight),
                           Some(res.val.open_date), Some(res.val.ticker) >> = Needed(row)
           /\ calls[c].by_ref.ok = res.ok
           /\ calls[c].by_ref.val = res.val
           /\ ~res.ok => calls[c].by_ref.msg = res.msg

\* a row without id is hydrated, and a row without ticker is refused
C23_Witness ==
    /\ Len(calls) >= 2
    /\ calls[1].arg.id = None /\ calls[1].out.ok /\ calls[1].by_ref.ok
    /\ calls[2].arg.ticker = None /\ calls[2].arg.owner # None
    /\ ~calls[2].out.ok /\ ~calls[2].by_ref.ok

\* the run was aborted: it ended without a value, Ok or Err
Aborted == pc = "done" /\ ~result[1].ok /\ result[1].val = "panic"

Recovered == Reconciled /\ partial.ci = ci

\* the write b of the later run does again what the write a of the run that
\* was cut short had committed: it writes the same position, or retires the
\* same row
Repeats(a, b) ==
    IF a.kind = "retire" \/ b.kind = "retire"
    THEN a.kind = b.kind /\ a.id = b.id
    ELSE partial.page[a.idx] = new_positions[b.idx]

\* the write b was still missing when the later run started: the position it
\* writes was not active, the row it retires has no counterpart on the page
StillMissing(b) ==
    IF b.kind = "retire"
    THEN ~\E k \in DOMAIN new_positions : SameKey(new_positions[k], StoredOf[b.idx])
    ELSE new_positions[b.idx] \notin Range(StoredOf)

RecoveredRight ==
    /\ \A a \in DOMAIN partial.ops : \A b \in DOMAIN ops :
          ~Repeats(partial.ops[a], ops[b])
    /\ \A b \in DOMAIN ops : StillMissing(ops[b])
    /\ SameMultiset(ActiveOf(Company.ticker), new_positions)

(* C25 (as stated): when a storage write failed part-way through a          *)
(* company's reconciliation, after some writes were committed, a later run  *)
(* that reconciles the company on the same page commits only writes that    *)
(* were still missing, repeats none of the committed ones and leaves the    *)
(* active positions equal to the page.                                      *)
C25_RecoveryAnyPage == Recovered => RecoveredRight

(* C25 (amended): the same, for the pages and stored sets that do not hold  *)
(* two positions of one (owner, ticker).                                    *)
C25_Recovery ==
    (Recovered /\ NoDuplicateKey(new_positions) /\ NoDuplicateKey(StoredOf))
        => RecoveredRight

\* the run that was cut short had committed an update, and the later run
\* committed the insert that was missing
C25_Witness ==
    /\ Recovered
    /\ NoDuplicateKey(new_positions)
    /\ NoDuplicateKey(StoredOf)
    /\ \E a \in DOMAIN partial.ops : partial.ops[a].kind = "update"
    /\ Len(ops) = 1
    /\ ops[1].kind = "insert"
    /\ RecoveredRight

\* a step that writes to a table leaves the retired rows retired and out of
\* every lookup, and takes no row out of the active-set table
RetiredStays ==
    Tables' # Tables
        => /\ Len(alive') >= Len(alive)
           /\ \A i \in DOMAIN alive :
                 alive[i] = Void
                     => /\ alive'[i] = Void
                        /\ ~\E k \in DOMAIN historic' : historic'[k].id = alive'[i]
                        /\ \A t \in Tickers :
                              \A r \in DOMAIN ActivePositionsOf(alive', historic', t) :
                                  ActivePositionsOf(alive', historic', t)[r].id # Some(Void)

(* C26: once the identity of an active-set row is the void token, no later  *)
(* insert, update or retire changes that row or makes it show up in the     *)
(* lookups of active positions; and the number of rows of the active-set    *)
(* table never goes down.                                                   *)
C26_RetirementIrreversible == [][RetiredStays]_vars

\* a row was retired before this company's reconciliation began, and an
\* update was committed since
C26_Witness ==
    /\ \E i \in DOMAIN base.alive : base.alive[i] = Void /\ alive[i] = Void
    /\ "update" \in Kinds

\* the identities of the rows of both tables
StoredIds == Range(alive) \cup {historic[k].id : k \in DOMAIN historic}

\* the identities a step writes to the active-set table and to the
\* historical table
AliveWritten ==
    {alive'[i] : i \in {k \in DOMAIN alive' : k \notin DOMAIN alive \/ alive'[k] # alive[k]}}
HistoricWritten == {historic'[k].id : k \in DOMAIN historic' \ DOMAIN historic}

\* the commit of an insert or update writes one identity, the same to both
\* tables, that no row had, that is not the void token and not the
\* identity it replaces
FreshWrite ==
    (pc = "tx_commit" /\ pc' # "done")
        => /\ Cardinality(AliveWritten) = 1
           /\ HistoricWritten = AliveWritten
           /\ \A u \in AliveWritten :
                 /\ u # Void
                 /\ u \notin StoredIds
                 /\ call.active # None => u # call.active[1]
                 /\ call.uuid = Some(u)

(* C28: every identity written by an insert or an update is the one drawn   *)
(* for that write, differs from the void token and from every identity of   *)
(* the active-set and historical tables, an update's new identity differs   *)
(* from the one it replaces, and the active-set row and the historical row  *)
(* of one write carry the same identity.                                    *)
C28_FreshIdentity == [][FreshWrite]_vars

\* an update was committed: the row carries the new identity and the old
\* one is gone from the active-set table
C28_Witness ==
    /\ ops # <<>>
    /\ ops[Len(ops)].kind = "update"
    /\ ops[Len(ops)].id \in Range(alive)
    /\ ops[Len(ops)].old[1] \notin Range(alive)
    /\ ops[Len(ops)].old[1] # ops[Len(ops)].id

\* the place of a position of add_today_data in a company's sequence:
\* the page, the stored rows, the choice of the case, the writes, the end
Rank(p) ==
    CASE p \in {"fetch", "pending"} -> 1
      [] p = "read" -> 2
      [] p = "case" -> 3
      [] p = "next" -> 5
      [] OTHER -> 4

\* the run is inside the sequence of a company, before and after the step
SameCompany == ci # 0 /\ ci' = ci /\ pc' # "done"

\* the step reads or writes the store
StoreStep == Tables' # Tables \/ pc \in {"read", "lookup"} \/ tx' # tx

InOrder ==
    /\ SameCompany => Rank(pc') >= Rank(pc)
    /\ (SameCompany /\ pc = "fetch" /\ pc' # "pending")
          => /\ pc' = "read"
             /\ Answered' /\ Classified'
             /\ total' # None
             /\ ci \in visited'
    /\ (ci # 0 /\ StoreStep) => (Rank(pc) \in {2, 4} /\ ci \in visited)
    /\ (ci # 0 /\ ci' # 0 /\ ci' # ci)
          => /\ pc = "next" /\ pc' = "fetch"
             /\ ci' = ci + 1
             /\ tx = None /\ call = NoCall
             /\ Tables' = Tables

(* C27: within one company the steps run in the order fetch, classify,      *)
(* extract, read the stored rows, reconcile, write: the store is neither    *)
(* read nor written for a company before its page was fetched, accepted by  *)
(* the classifier and extracted into a snapshot, and no step of the next    *)
(* company starts before the last write of the current one has finished.    *)
C27_StrictOrder == [][InOrder]_vars

\* the second company is at a write after the first one had its writes
C27_Witness ==
    /\ ci = 2
    /\ pc = "tx_commit"
    /\ Filtered[1].ticker \in written
    /\ visited = {1, 2}

\* the run returned the list of changed tickers
ReturnedList == pc = "done" /\ result[1].ok

(* C30: every ticker of the list add_today_data returns had an insert, an   *)
(* update or a retire committed for it during that run, and no ticker is    *)
(* in the list twice.                                                       *)
C30_ChangeListSound ==
    ReturnedList =>
        LET list == result[1].val
        IN /\ \A k \in DOMAIN list : list[k] \in written
           /\ \A a \in DOMAIN list : \A b \in DOMAIN list : a # b => list[a] # list[b]

\* both companies are in the returned list
C30_Witness ==
    /\ ReturnedList
    /\ Len(result[1].val) = 2
    /\ written = Range(result[1].val)

(* C29: every fetch ends: a request that is sent is followed by the         *)
(* snapshot or by an error, so that a run that has started returns.         *)
C29_EveryFetchEnds == (pc = "fetch") ~> (pc = "read" \/ pc = "done")

\* the page holds the same (owner, ticker) at i and at k, after i, with
\* different weights, nowhere else, and neither position is a stored one
DuplicatePair(i, k) ==
    /\ i < k
    /\ SameKey(new_positions[i], new_positions[k])
    /\ new_positions[i].weight # new_positions[k].weight
    /\ \A m \in DOMAIN new_positions : SameKey(new_positions[m], new_positions[i]) => m \in {i, k}
    /\ new_positions[i] \notin Range(StoredOf)
    /\ new_positions[k] \notin Range(StoredOf)

\* the historical rows appended for the (owner, ticker) of p since the company started
AppendedFor(p) ==
    {n \in DOMAIN historic : n > Len(base.historic) /\ SameKey(RowPosition(historic[n]), p)}

\* the active positions of the (owner, ticker) of p
ActiveFor(p) ==
    {n \in DOMAIN ActiveOf(p.ticker) : SameKey(ActiveOf(p.ticker)[n], p)}

\* the second duplicate re-keyed the row the first one wrote; one active
\* row is left for the pair, with the second duplicate's fields, and two
\* historical rows were appended for it
LastDuplicateWins(i, k) ==
    /\ \E a \in WritesFor(i) : \E b \in WritesFor(k) :
          /\ a < b
          /\ ops[b].kind = "update"
          /\ ops[b].old = Some(ops[a].id)
    /\ Cardinality(WritesFor(i)) = 1
    /\ Cardinality(WritesFor(k)) = 1
    /\ Cardinality(ActiveFor(new_positions[k])) = 1
    /\ \A n \in ActiveFor(new_positions[k]) : ActiveOf(new_positions[k].ticker)[n] = new_positions[k]
    /\ Cardinality(AppendedFor(new_positions[k])) = 2

\* the stored rows of the (owner, ticker) of p
StoredFor(p) == {n \in DOMAIN StoredOf : SameKey(StoredOf[n], p)}

====
